---- MODULE Spec2Model ----
(***************************************************************************)
(* Two-player trivia match engine: the Match aggregate, the Match Service  *)
(* that resolves turns on it, and the command-line driver's game loop.     *)
(*                                                                         *)
(* The Match object, the Player objects it references and the Question     *)
(* objects it pools are flattened into one record, `match`.  Every service *)
(* method is an operator from a match record (and the call's arguments) to *)
(* a result record [m, threw, ret]: the match as the call leaves it (also  *)
(* when it throws half-way), the error thrown ("none" for a normal return) *)
(* and the value returned.                                                 *)
(***************************************************************************)
EXTENDS Integers, Sequences, FiniteSets, TLC

VARIABLES match, pc, firstTurn, turnResult, mementos, loopExit, winner,
          registry

vars == <<match, pc, firstTurn, turnResult, mementos, loopExit, winner,
          registry>>

(***************************************************************************)
(* Bounds of the model.                                                    *)
(***************************************************************************)
\* The Player objects of a run: createPlayers makes exactly two (ids 1 and 2
\* stand for their uuids).
NumPlayers == 2
\* Question records the Match Service is handed over all createQuestionPool
\* calls of a run of the service specification.
MaxQuestions == 2
\* Cap of questionsResolved in the service specification, where calls keep
\* being accepted for ever.
MaxResolved == 2
\* Question records the driver loads (from the API or from a file).
MaxLoaded == 8
\* Player objects that exist at all: the two of createPlayers and the ones
\* a caller of the service may offer to the match besides them.
MaxPlayers == 3
\* Category names that exist at all.
MaxCategories == 5

\* null / undefined: every id of the program is a non-empty string (a uuid),
\* which is truthy, and ids are modelled as positive numbers, so 0 is the
\* one falsy value.
None == 0

PlayerIds == 1..MaxPlayers

\* The players createPlayers makes.
CreatedPlayers == 1..NumPlayers

Max(a, b) == IF a >= b THEN a ELSE b

QuestionIds == 1..Max(MaxQuestions, MaxLoaded)

(***************************************************************************)
(* Entities                                                                *)
(***************************************************************************)
\* Player constructor: skips starts at 2, points at 0.
InitialSkips == 2

InitialPoints == 0

\* Every question is constructed with a point value of 1, whatever its
\* difficulty.
QuestionPoints(q) == 1

\* numberOfRounds is a JavaScript number and createQuestionPool halves the
\* record count without rounding: the value is kept as a fraction <<num, den>>.
Fraction(num, den) == <<num, den>>

\* n < f for an integer n and a fraction f.
LessThan(n, f) == n * f[2] < f[1]

\* n > f for an integer n and a fraction f.
GreaterThan(n, f) == n * f[2] > f[1]

\* The absence of a question: what createQuestionFromData returns for a
\* record it skips (undefined).
NoQuestion ==
    [ type       |-> "",
      text       |-> "",
      options    |-> << >>,
      correct    |-> FALSE,
      points     |-> 0,
      difficulty |-> "" ]

\* new Match(): no players, empty pool, status 'waiting', round 1.
NewMatch ==
    [ players            |-> << >>,
      points             |-> [p \in PlayerIds |-> InitialPoints],
      skips              |-> [p \in PlayerIds |-> InitialSkips],
      questionPool       |-> << >>,
      created            |-> 0,
      qAssignedTo        |-> [q \in QuestionIds |-> None],
      qAnsweredBy        |-> [q \in QuestionIds |-> None],
      qData              |-> [q \in QuestionIds |-> NoQuestion],
      assigned           |-> [p \in PlayerIds |-> None],
      status             |-> "waiting",
      passedQuestion     |-> None,
      questionsResolved  |-> 0,
      numberOfRounds     |-> Fraction(0, 1),
      currentPlayer      |-> None,
      currentRound       |-> 1 ]

\* Result records of a call.
Ok(m, ret) == [m |-> m, threw |-> "none", ret |-> ret]

Throw(m, err) == [m |-> m, threw |-> err, ret |-> None]

Range(s) == {s[i] : i \in 1..Len(s)}

\* Match.hasPlayer
hasPlayer(m, p) == \E i \in 1..Len(m.players) : m.players[i] = p

\* Map.delete on the insertion-ordered pool.
PoolDelete(pool, q) == SelectSeq(pool, LAMBDA x : x # q)

\* Array.find(p => p.id !== playerId): the first other player, or undefined.
FindOther(m, p) ==
    LET idx == {i \in 1..Len(m.players) : m.players[i] # p}
    IN  IF idx = {} THEN None
        ELSE m.players[CHOOSE i \in idx : \A j \in idx : i <= j]

\* An assignTo that takes the question over from its assignee.
assignTo_Over(m, q, p) ==
    IF p = None THEN Throw(m, "InvalidOperationError")
    ELSE Ok([m EXCEPT !.qAssignedTo[q] = p], None)

\* Question.assignTo
assignTo(m, q, p) ==
    IF p = None THEN Throw(m, "InvalidOperationError")
    ELSE IF m.qAssignedTo[q] # None THEN Throw(m, "InvalidOperationError")
    ELSE Ok([m EXCEPT !.qAssignedTo[q] = p], None)

\* A markAnswered that accepts an answer to an answered question.
markAnswered_Again(m, q, by) ==
    IF by = None THEN Throw(m, "InvalidOperationError")
    ELSE IF m.qAssignedTo[q] = None THEN Throw(m, "InvalidOperationError")
    ELSE IF by # m.qAssignedTo[q] THEN Throw(m, "InvalidOperationError")
    ELSE Ok([m EXCEPT !.qAnsweredBy[q] = by], None)

\* Question.markAnswered
markAnswered(m, q, by) ==
    IF by = None THEN Throw(m, "InvalidOperationError")
    ELSE IF m.qAssignedTo[q] = None THEN Throw(m, "InvalidOperationError")
    ELSE IF m.qAnsweredBy[q] # None THEN Throw(m, "InvalidOperationError")
    ELSE IF by # m.qAssignedTo[q] THEN Throw(m, "InvalidOperationError")
    ELSE Ok([m EXCEPT !.qAnsweredBy[q] = by], None)

\* Question.assignTo inside the caller's try/catch: a question that already
\* has an assignee keeps it, the error is swallowed.
TryAssignTo(m, q, p) == assignTo(m, q, p).m

\* Question.markAnswered inside the caller's try/catch.
TryMarkAnswered(m, q, by) == markAnswered(m, q, by).m

\* Player.addPoints
addPoints(m, p, n) == [m EXCEPT !.points[p] = @ + n]

(***************************************************************************)
(* Category registry                                                       *)
(***************************************************************************)
\* The names a category can be given.
CategoryNames == 1..MaxCategories

\* Ids a caller can make up: no uuid the registry generates equals one.
ForeignIds == {-1, -2}

\* The static maps of class Category when the process starts.  A category
\* is identified by its id; byId[id] is its name, byName[name] its id.
NewRegistry ==
    [ byId   |-> << >>,
      byName |-> [name \in CategoryNames |-> None] ]

\* uuidv4(): an id no category has yet.
uuidv4(reg) == Len(reg.byId) + 1

\* Category.getById
getById(reg, id) == IF id \in DOMAIN reg.byId THEN id ELSE None

\* Category.getByName
getByName(reg, name) == reg.byName[name]

\* createCategory: the category is registered under a new uuid.
createCategory(reg, name) ==
    LET newId == uuidv4(reg)
    IN  [ reg   |-> [byId   |-> Append(reg.byId, name),
                     byName |-> [reg.byName EXCEPT ![name] = newId]],
          threw |-> "none",
          ret   |-> newId ]

\* Category.getOrCreate
getOrCreate(reg, id, name) ==
    LET existingById   == getById(reg, id)
        existingByName == getByName(reg, name)
    IN  IF existingById # None
        THEN IF reg.byId[existingById] # name
             THEN [reg |-> reg, threw |-> "DuplicateError", ret |-> None]
             ELSE [reg |-> reg, threw |-> "none", ret |-> existingById]
        ELSE IF existingByName # None
        THEN IF existingByName # id
             THEN [reg |-> reg, threw |-> "DuplicateError", ret |-> None]
             ELSE [reg |-> reg, threw |-> "none", ret |-> existingByName]
        ELSE createCategory(reg, name)

(***************************************************************************)
(* Match Service                                                           *)
(***************************************************************************)
\* decodeHTML of package 'entities': an HTML entity is replaced by the
\* character it names.  Of the texts used here only "&amp;" holds an entity.
decodeHTML(text) == IF text = "&amp;" THEN "&" ELSE text

\* An ApiQuestion record.  A missing or empty string field is "" (both are
\* falsy in JavaScript); has_incorrect_answers tells whether the record
\* carries an incorrect_answers array at all.  rolls[i] is the value
\* Math.floor(Math.random() * (i + 1)) takes at step i of the shuffle of this
\* record's answers.
ApiQuestion(type, question, correct, incorrect, difficulty, rolls) ==
    [ type                  |-> type,
      question              |-> question,
      correct_answer        |-> correct,
      has_incorrect_answers |-> TRUE,
      incorrect_answers     |-> incorrect,
      difficulty            |-> difficulty,
      rolls                 |-> rolls ]

\* A createAnswers that flags no answer as the correct one.
createAnswers_NoneCorrect(questionData) ==
    << [text |-> questionData.correct_answer, isCorrect |-> FALSE] >>
    \o [i \in 1..Len(questionData.incorrect_answers) |->
          [text |-> questionData.incorrect_answers[i], isCorrect |-> FALSE]]

\* createAnswers: the correct answer first, then the incorrect ones.
createAnswers(questionData) ==
    << [text |-> questionData.correct_answer, isCorrect |-> TRUE] >>
    \o [i \in 1..Len(questionData.incorrect_answers) |->
          [text |-> questionData.incorrect_answers[i], isCorrect |-> FALSE]]

\* The exchange of answers[i] and answers[j] (0-based, as in the code).
Swap(answers, i, j) ==
    [answers EXCEPT ![i + 1] = answers[j + 1], ![j + 1] = answers[i + 1]]

\* The loop of shuffleAnswers from index i down to 1.
RECURSIVE shuffleFrom(_, _, _)
shuffleFrom(answers, rolls, i) ==
    IF i > 0 THEN shuffleFrom(Swap(answers, i, rolls[i]), rolls, i - 1)
    ELSE answers

\* shuffleAnswers: Fisher-Yates, then the options keyed by idx + 1 (the
\* positions of the sequence).
shuffleAnswers(answers, rolls) == shuffleFrom(answers, rolls, Len(answers) - 1)

\* MultipleChoice.checkAnswer: the flag of the option at the label, false
\* when no option has that label.
checkAnswer(question, userChoice) ==
    IF userChoice \in DOMAIN question.options
    THEN question.options[userChoice].isCorrect
    ELSE FALSE

\* A createQuestionFromData that builds a true/false question from every
\* record, whatever it lacks.
createQuestionFromData_Always(questionData) ==
    [ type       |-> "boolean",
      text       |-> decodeHTML(questionData.question),
      options    |-> << >>,
      correct    |-> decodeHTML(questionData.correct_answer) \in {"True", "true"},
      points     |-> QuestionPoints(questionData),
      difficulty |-> questionData.difficulty ]

\* createQuestionFromData: a record missing a required field, or of a type
\* other than 'multiple' and 'boolean', yields no question; every question
\* is built with the point value 1 and the record's difficulty.
createQuestionFromData(questionData) ==
    IF \/ questionData.type = ""
       \/ questionData.question = ""
       \/ questionData.correct_answer = ""
       \/ ~questionData.has_incorrect_answers
    THEN NoQuestion
    ELSE IF questionData.type = "multiple"
    THEN [ type       |-> "multiple",
           text       |-> decodeHTML(questionData.question),
           options    |-> LET answers == createAnswers(questionData)
                          IN  shuffleAnswers(
                                  [i \in 1..Len(answers) |->
                                      [text      |-> decodeHTML(answers[i].text),
                                       isCorrect |-> answers[i].isCorrect]],
                                  questionData.rolls),
           correct    |-> FALSE,
           points     |-> QuestionPoints(questionData),
           difficulty |-> questionData.difficulty ]
    ELSE IF questionData.type = "boolean"
    THEN [ type       |-> "boolean",
           text       |-> decodeHTML(questionData.question),
           options    |-> << >>,
           correct    |-> decodeHTML(questionData.correct_answer) \in {"True", "true"},
           points     |-> QuestionPoints(questionData),
           difficulty |-> questionData.difficulty ]
    ELSE NoQuestion

\* The questions built from a batch: one per record that yields a question,
\* in the order of the records.
RECURSIVE WellFormed(_)
WellFormed(recs) ==
    IF Len(recs) = 0 THEN << >>
    ELSE LET newQuestion == createQuestionFromData(Head(recs))
         IN  IF newQuestion = NoQuestion THEN WellFormed(Tail(recs))
             ELSE << newQuestion >> \o WellFormed(Tail(recs))

\* createQuestionPool: one new question (a fresh id) per well-formed record,
\* appended to the pool in order; numberOfRounds ends as questions.length / 2.
createQuestionPool(m, recs) ==
    LET built == WellFormed(recs)
        k == Len(built)
    IN  Ok([m EXCEPT !.questionPool = @ \o [i \in 1..k |-> m.created + i],
                     !.created = @ + k,
                     !.qData = [q \in QuestionIds |->
                                   IF q \in (m.created + 1)..(m.created + k)
                                   THEN built[q - m.created] ELSE @[q]],
                     !.numberOfRounds = Fraction(Len(recs), 2)],
           None)

\* drawQuestion: the first question of the pool in insertion order, or
\* undefined; the pool itself is left as it is.
drawQuestion(m) ==
    IF Len(m.questionPool) = 0 THEN None ELSE Head(m.questionPool)

\* drawQuestion only reads the pool's iterator: the pool it leaves behind is
\* the pool it found.
poolAfterDraw(m) == m.questionPool

\* An assignment that forgets what the player held when the pool is empty.
assignQuestionToPlayer_Forgets(m, p) ==
    IF ~hasPlayer(m, p) THEN Throw(m, "NotFoundError")
    ELSE LET q == drawQuestion(m)
         IN  IF q = None THEN Ok([m EXCEPT !.assigned[p] = None], None)
             ELSE Ok(TryAssignTo([m EXCEPT !.assigned[p] = q], q, p), q)

\* assignQuestionToPlayer
assignQuestionToPlayer(m, p) ==
    IF ~hasPlayer(m, p) THEN Throw(m, "NotFoundError")
    ELSE LET q == drawQuestion(m)
         IN  IF q = None THEN Ok(m, None)
             ELSE Ok(TryAssignTo([m EXCEPT !.assigned[p] = q], q, p), q)

\* A passQuestion that hands the question over without marking it passed.
passQuestion_Unmarked(m, from, to) ==
    IF ~hasPlayer(m, from) \/ ~hasPlayer(m, to) THEN Throw(m, "NotFoundError")
    ELSE LET qid == m.assigned[from]
         IN  IF qid = None THEN Throw(m, "InvalidOperationError")
             ELSE Ok([m EXCEPT !.assigned = [@ EXCEPT ![from] = None, ![to] = qid]],
                     None)

\* passQuestion
passQuestion(m, from, to) ==
    IF ~hasPlayer(m, from) \/ ~hasPlayer(m, to) THEN Throw(m, "NotFoundError")
    ELSE LET qid == m.assigned[from]
         IN  IF qid = None THEN Throw(m, "InvalidOperationError")
             ELSE Ok([m EXCEPT !.assigned = [@ EXCEPT ![from] = None, ![to] = qid],
                               !.passedQuestion = qid],
                     None)

\* skipQuestion: clears the player's assignment and assigns the next question.
skipQuestion(m, p) ==
    IF ~hasPlayer(m, p) THEN Throw(m, "NotFoundError")
    ELSE assignQuestionToPlayer([m EXCEPT !.assigned[p] = None], p)

\* A resolution that removes the question without counting it.
resolveQuestion_Uncounted(m, q) ==
    IF q = None THEN m
    ELSE [m EXCEPT !.questionPool = PoolDelete(@, q)]

\* recordAnswer, "if (q) { pool.delete(q.id); questionsResolved++ }".
resolveQuestion(m, q) ==
    IF q = None THEN m
    ELSE [m EXCEPT !.questionPool = PoolDelete(@, q),
                   !.questionsResolved = @ + 1]

\* A resolution that leaves the passed marker in place.
clearPassed_Never(m, q) == m

\* recordAnswer, "if (passedQuestion === q?.id) passedQuestion = null".
clearPassed(m, q) ==
    IF q # None /\ m.passedQuestion = q THEN [m EXCEPT !.passedQuestion = None]
    ELSE m

\* An answer that never scores.
awardedPoints_Zero(correct, q) == 0

\* recordAnswer, "awarded = correct && q ? q.points : 0".
awardedPoints(correct, q) ==
    IF correct /\ q # None THEN QuestionPoints(q) ELSE 0

\* recordAnswer(playerId, correct, question?); question = None when the
\* caller passes none and the question is looked up through match.assigned.
recordAnswer(m, p, correct, question) ==
    IF ~hasPlayer(m, p) THEN Throw(m, "NotFoundError")
    ELSE IF question = None /\ m.assigned[p] = None
         THEN Throw(m, "InvalidOperationError")
    ELSE LET q  == IF question # None THEN question
                   ELSE IF m.assigned[p] \in Range(m.questionPool)
                        THEN m.assigned[p] ELSE None
             m1 == clearPassed(resolveQuestion(m, q), q)
             awarded == awardedPoints(correct, q)
             m2 == IF awarded > 0 THEN addPoints(m1, p, awarded) ELSE m1
             m3 == [m2 EXCEPT !.assigned[p] = None]
             m4 == IF q # None THEN TryMarkAnswered(m3, q, p) ELSE m3
         IN  Ok(m4, awarded)

\* answerQuestion
answerQuestion(m, p, correct) ==
    IF ~hasPlayer(m, p) THEN Throw(m, "NotFoundError")
    ELSE IF m.assigned[p] = None THEN Throw(m, "InvalidOperationError")
    ELSE LET qid == m.assigned[p]
             awarded == IF correct /\ qid \in Range(m.questionPool)
                        THEN QuestionPoints(qid) ELSE 0
             r == assignQuestionToPlayer([m EXCEPT !.assigned[p] = None], p)
         IN  [m |-> r.m, threw |-> r.threw, ret |-> awarded]

\* The turn outcome handlePlayerAnswer returns.
Outcome(next, pts, passed, skipsLeft, over) ==
    [ nextPlayerId   |-> next,
      pointsAwarded  |-> pts,
      questionPassed |-> passed,
      skipsRemaining |-> skipsLeft,
      turnOver       |-> over ]

NoOutcome == Outcome(None, 0, FALSE, 0, FALSE)

\* A correct answer that always ends the turn.
turnOverAfterCorrect_Always(isPassedQuestion) == TRUE

\* handlePlayerAnswer, "turnOver: !isPassedQuestion" of the correct branch.
turnOverAfterCorrect(isPassedQuestion) == ~isPassedQuestion

\* handlePlayerAnswer(playerId, answer, q): answer.correct is the caller's
\* verdict on the answer, q the Question object answered.
handlePlayerAnswer(m, p, correct, q) ==
    IF ~hasPlayer(m, p) THEN [Throw(m, "NotFoundError") EXCEPT !.ret = NoOutcome]
    ELSE LET isPassedQuestion == m.passedQuestion = q
         IN  IF correct
             THEN LET r == recordAnswer(m, p, TRUE, q)
                  IN  Ok(r.m, Outcome(None, r.ret, FALSE, r.m.skips[p],
                                      turnOverAfterCorrect(isPassedQuestion)))
             ELSE IF isPassedQuestion
             THEN LET r == recordAnswer(m, p, FALSE, q)
                  IN  Ok(r.m, Outcome(None, 0, FALSE, r.m.skips[p], FALSE))
             ELSE LET nextPlayer == FindOther(m, p)
                  IN  IF nextPlayer # None
                      THEN LET r == passQuestion(m, p, nextPlayer)
                           IN  IF r.threw # "none"
                               THEN [r EXCEPT !.ret = NoOutcome]
                               ELSE Ok(r.m, Outcome(nextPlayer, 0, TRUE,
                                                    r.m.skips[p], FALSE))
                      ELSE LET r == recordAnswer(m, p, FALSE, q)
                           IN  Ok(r.m, Outcome(None, 0, FALSE, r.m.skips[p], TRUE))

\* start
start(m) ==
    IF m.status # "waiting" THEN Throw(m, "InvalidOperationError")
    ELSE IF Len(m.players) < 2 THEN Throw(m, "InvalidOperationError")
    ELSE Ok([m EXCEPT !.status = "in-progress"], None)

\* addPlayer: the player is pushed before the auto-assignment of an
\* in-progress match, which throws when the pool is empty.
addPlayer(m, p) ==
    IF hasPlayer(m, p) THEN Throw(m, "DuplicateError")
    ELSE LET m1 == [m EXCEPT !.players = Append(@, p)]
         IN  IF m1.status = "in-progress"
             THEN LET r == assignQuestionToPlayer(m1, p)
                  IN  IF r.ret = None THEN Throw(r.m, "InvalidOperationError")
                      ELSE Ok(r.m, None)
             ELSE Ok(m1, None)

\* removePlayer
removePlayer(m, p) ==
    IF m.status = "in-progress" THEN Throw(m, "InvalidOperationError")
    ELSE IF ~hasPlayer(m, p) THEN Throw(m, "NotFoundError")
    ELSE Ok([m EXCEPT !.players = SelectSeq(@, LAMBDA x : x # p)], None)

\* determineWinner's loop over players[1..n]: a later player replaces the
\* candidate only with strictly more points.
RECURSIVE WinnerScan(_, _, _)
WinnerScan(m, w, i) ==
    IF i > Len(m.players) THEN w
    ELSE WinnerScan(m,
                    IF m.points[m.players[i]] > m.points[w]
                    THEN m.players[i] ELSE w,
                    i + 1)

\* determineWinner: undefined without players, otherwise a player.
determineWinner(m) ==
    IF Len(m.players) = 0 THEN None
    ELSE WinnerScan(m, m.players[1], 1)

\* Match.setCurrentPlayer
setCurrentPlayer(m, p) == [m EXCEPT !.currentPlayer = p]

(***************************************************************************)
(* State                                                                   *)
(*   match       the Match object with its players and questions           *)
(*   pc          the driver's place in run(): "setup", "loop" or "done"    *)
(*   firstTurn   the driver's firstTurn flag                               *)
(*   turnResult  what the driver's last turn came to: the outcome of its   *)
(*               handlePlayerAnswer call, or a skip                        *)
(*   mementos    the number of snapshots the driver's caretaker holds      *)
(*   loopExit    how the driver's game loop ended                          *)
(*   winner      what determineWinner returned to the driver               *)
(*   registry    the static maps Category.byId and Category.byName         *)
(***************************************************************************)
NoTurn == [kind |-> "none", player |-> None, question |-> None, out |-> NoOutcome]

Init ==
    /\ match = NewMatch
    /\ pc = "setup"
    /\ firstTurn = TRUE
    /\ turnResult = NoTurn
    /\ mementos = 0
    /\ loopExit = "none"
    /\ winner = None
    /\ registry = NewRegistry

DriverIdle ==
    UNCHANGED <<pc, firstTurn, turnResult, mementos, loopExit, winner, registry>>

\* The difficulties of the API.
Difficulties == {"easy", "medium", "hard"}

\* The roll sequences Math.random can deliver for n answers: rolls[i] is in
\* 0..i.
Rolls(n) == {r \in [1..(n - 1) -> 0..(n - 1)] : \A i \in 1..(n - 1) : r[i] <= i}

\* A well-formed true/false record and a record without question text.
GoodRecord == ApiQuestion("boolean", "Q", "True", << "False" >>, "easy", << >>)

BadRecord == [GoodRecord EXCEPT !.question = ""]

\* The batches of records the flows hand to createQuestionPool: each record
\* well-formed or not.
RecordBatches(maxLen) ==
    UNION {[1..n -> {GoodRecord, BadRecord}] : n \in 0..maxLen}

\* The Question objects a caller can hold: those created so far.
Created == 1..match.created

(***************************************************************************)
(* The Match Service called in any order, with any arguments.  A call that *)
(* throws leaves the match as the method left it when it threw.            *)
(***************************************************************************)
AddPlayer(p) ==
    /\ match' = addPlayer(match, p).m
    /\ DriverIdle

\* Questions are loaded while none exists yet.
CreateQuestionPool(recs) ==
    /\ match.created = 0
    /\ match' = createQuestionPool(match, recs).m
    /\ DriverIdle

Start ==
    /\ match' = start(match).m
    /\ DriverIdle

AssignQuestionToPlayer(p) ==
    /\ match' = assignQuestionToPlayer(match, p).m
    /\ DriverIdle

PassQuestion(from, to) ==
    /\ match' = passQuestion(match, from, to).m
    /\ DriverIdle

SkipQuestion(p) ==
    /\ match' = skipQuestion(match, p).m
    /\ DriverIdle

AnswerQuestion(p, correct) ==
    /\ match' = answerQuestion(match, p, correct).m
    /\ DriverIdle

RecordAnswer(p, correct, q) ==
    /\ match.questionsResolved < MaxResolved
    /\ match' = recordAnswer(match, p, correct, q).m
    /\ DriverIdle

HandlePlayerAnswer(p, correct, q) ==
    /\ match.questionsResolved < MaxResolved
    /\ match' = handlePlayerAnswer(match, p, correct, q).m
    /\ DriverIdle

Next ==
    \/ \E p \in CreatedPlayers : AddPlayer(p)
    \/ \E recs \in RecordBatches(MaxQuestions) : CreateQuestionPool(recs)
    \/ Start
    \/ \E p \in CreatedPlayers : AssignQuestionToPlayer(p)
    \/ \E from \in CreatedPlayers, to \in CreatedPlayers : PassQuestion(from, to)
    \/ \E p \in CreatedPlayers : SkipQuestion(p)
    \/ \E p \in CreatedPlayers, correct \in BOOLEAN : AnswerQuestion(p, correct)
    \/ \E p \in CreatedPlayers, correct \in BOOLEAN, q \in Created \cup {None} :
          RecordAnswer(p, correct, q)
    \/ \E p \in CreatedPlayers, correct \in BOOLEAN, q \in Created :
          HandlePlayerAnswer(p, correct, q)

Spec == Init /\ [][Next]_vars

(***************************************************************************)
(* The lobby: players join and leave a match, questions are loaded and the *)
(* match is started by a caller of the service that knows every Player,    *)
(* also one more than the two the driver creates.                          *)
(***************************************************************************)
RemovePlayer(p) ==
    /\ match' = removePlayer(match, p).m
    /\ DriverIdle

NextLobby ==
    \/ \E p \in PlayerIds : AddPlayer(p)
    \/ \E p \in PlayerIds : RemovePlayer(p)
    \/ \E recs \in RecordBatches(MaxQuestions) : CreateQuestionPool(recs)
    \/ Start
    \/ \E p \in PlayerIds : AssignQuestionToPlayer(p)

SpecLobby == Init /\ [][NextLobby]_vars

(***************************************************************************)
(* Loading: the pool is built from API records of every shape.            *)
(***************************************************************************)
\* Multiple-choice records with two, one and no incorrect answers, under
\* every outcome of the shuffle.
MultipleRecords ==
    {ApiQuestion("multiple", "Q", "&amp;", << "B", "&" >>, "easy", r) : r \in Rolls(3)}
    \cup {ApiQuestion("multiple", "Q", "A", << "B" >>, "easy", r) : r \in Rolls(2)}
    \cup {ApiQuestion("multiple", "&amp;", "A", << >>, d, << >>) : d \in Difficulties}

\* True/false records.
BooleanRecords ==
    {ApiQuestion("boolean", "Q", c, << "False" >>, "easy", << >>) :
        c \in {"True", "true", "False"}}
    \cup {ApiQuestion("boolean", "Q", "True", << "False" >>, d, << >>) :
            d \in Difficulties}

\* Records that lack a required field or carry an unknown type.
MalformedRecords ==
    LET rec == ApiQuestion("multiple", "Q", "A", << "B" >>, "easy", << 0 >>)
    IN  { [rec EXCEPT !.type = ""],
          [rec EXCEPT !.type = "text"],
          [rec EXCEPT !.question = ""],
          [rec EXCEPT !.correct_answer = ""],
          [rec EXCEPT !.has_incorrect_answers = FALSE, !.incorrect_answers = << >>] }

ApiRecords == MultipleRecords \cup BooleanRecords \cup MalformedRecords

\* The batches of API records of at most maxLen records.
ApiBatches(maxLen) == UNION {[1..n -> ApiRecords] : n \in 0..maxLen}

NextLoad ==
    \/ \E p \in CreatedPlayers : AddPlayer(p)
    \/ \E recs \in ApiBatches(MaxQuestions) : CreateQuestionPool(recs)

SpecLoad == Init /\ [][NextLoad]_vars

(***************************************************************************)
(* The category registry under calls of getOrCreate.                      *)
(***************************************************************************)
GetOrCreate(id, name) ==
    /\ registry' = getOrCreate(registry, id, name).reg
    /\ UNCHANGED <<match, pc, firstTurn, turnResult, mementos, loopExit, winner>>

\* The ids a caller can pass: made up, or the id of a registered category.
CallerIds == ForeignIds \cup DOMAIN registry.byId

NextCategory == \E id \in CallerIds, name \in CategoryNames : GetOrCreate(id, name)

SpecCategory == Init /\ [][NextCategory]_vars

(***************************************************************************)
(* The driver: MainRunner.run().  One action per stretch of run() that the *)
(* player's input completes: the setup, one iteration of the game loop     *)
(* (an answer or a skip), and the end of the game.  A 'skip' typed with no *)
(* skips left is refused and the prompt repeats: it changes nothing.       *)
(* The loop's "no current player" exit cannot happen: setup always sets    *)
(* the first player as the current one.                                    *)
(***************************************************************************)
\* Caretaker.backup: one more snapshot on the caretaker's stack.
backup(n) == n + 1

\* setup(): createPlayers, createQuestionPool, setCurrentPlayer(firstPlayer),
\* start().  A failed fetch leaves the pool as an empty batch does.
setup(m, recs) ==
    LET m1 == addPlayer(m, 1).m
        m2 == addPlayer(m1, 2).m
        m3 == createQuestionPool(m2, recs).m
        m4 == setCurrentPlayer(m3, 1)
    IN  start(m4).m

\* The game loop's condition.
loopCondition(m) ==
    /\ m.status = "in-progress"
    /\ LessThan(m.questionsResolved, m.numberOfRounds)

\* The head of an iteration: the round counter moves when a new question is
\* drawn after the first turn; the question is the one the current player
\* holds (looked up in the pool) or the next one assigned to them.
turnQuestion(m, first) ==
    LET cp == m.currentPlayer
        aq == m.assigned[cp]
        m1 == IF aq = None /\ ~first THEN [m EXCEPT !.currentRound = @ + 1] ELSE m
    IN  IF aq # None
        THEN [m |-> m1, question |-> IF aq \in Range(m1.questionPool) THEN aq ELSE None]
        ELSE LET r == assignQuestionToPlayer(m1, cp)
             IN  [m |-> r.m, question |-> r.ret]

\* A skip offered whatever the number of skips left.
canSkip_Always(m, p) == TRUE

\* The flows' "if (currentPlayer.skips > 0)" before skipFlow.
canSkip(m, p) == m.skips[p] > 0

\* A skip flow that uses the service's skipQuestion instead of discarding.
skipFlow_ViaService(m, p, q) ==
    LET m1 == [m EXCEPT !.skips[p] = @ - 1]
    IN  skipQuestion(m1, p).m

\* skipFlow(currentPlayer, currentQuestion)
skipFlow(m, p, q) ==
    LET m1 == [m EXCEPT !.skips[p] = @ - 1]
        m2 == recordAnswer(m1, p, FALSE, q).m
    IN  assignQuestionToPlayer(m2, p).m

\* A moveToNextPlayer that leaves the turn with the current player.
moveToNextPlayer_Stay(m, out, cp) == m

\* moveToNextPlayer(turnResult, currentPlayer)
moveToNextPlayer(m, out, cp) ==
    IF out.questionPassed /\ out.nextPlayerId # None
    THEN IF hasPlayer(m, out.nextPlayerId)
         THEN setCurrentPlayer(m, out.nextPlayerId) ELSE m
    ELSE IF out.turnOver
    THEN setCurrentPlayer(m, IF FindOther(m, cp) # None THEN FindOther(m, cp) ELSE cp)
    ELSE m

Setup(recs) ==
    /\ pc = "setup"
    /\ match' = setup(match, recs)
    /\ mementos' = backup(mementos)
    /\ pc' = "loop"
    /\ UNCHANGED <<firstTurn, turnResult, loopExit, winner, registry>>

\* An iteration in which the current player answers.
TurnAnswer(correct) ==
    /\ pc = "loop"
    /\ loopCondition(match)
    /\ LET t  == turnQuestion(match, firstTurn)
           cp == match.currentPlayer
       IN  /\ t.question # None
           /\ LET r == handlePlayerAnswer(t.m, cp, correct, t.question)
              IN  /\ match' = moveToNextPlayer(r.m, r.ret, cp)
                  /\ turnResult' = [kind |-> "answer", player |-> cp,
                                    question |-> t.question, out |-> r.ret]
    /\ mementos' = backup(mementos)
    /\ firstTurn' = FALSE
    /\ UNCHANGED <<pc, loopExit, winner, registry>>

\* An iteration in which the current player types 'skip' with skips left.
TurnSkip ==
    /\ pc = "loop"
    /\ loopCondition(match)
    /\ LET t  == turnQuestion(match, firstTurn)
           cp == match.currentPlayer
       IN  /\ t.question # None
           /\ canSkip(t.m, cp)
           /\ match' = skipFlow(t.m, cp, t.question)
           /\ turnResult' = [kind |-> "skip", player |-> cp,
                             question |-> t.question, out |-> NoOutcome]
    /\ mementos' = backup(mementos)
    /\ firstTurn' = FALSE
    /\ UNCHANGED <<pc, loopExit, winner, registry>>

\* An iteration that finds no question: the match is finished, the loop is
\* left and the winner determined.
TurnNoQuestion ==
    /\ pc = "loop"
    /\ loopCondition(match)
    /\ LET t == turnQuestion(match, firstTurn)
       IN  /\ t.question = None
           /\ match' = [t.m EXCEPT !.status = "finished"]
           /\ winner' = determineWinner(t.m)
    /\ loopExit' = "empty"
    /\ pc' = "done"
    /\ UNCHANGED <<firstTurn, turnResult, mementos, registry>>

\* The loop's condition fails: the winner is determined.
GameOver ==
    /\ pc = "loop"
    /\ ~loopCondition(match)
    /\ winner' = determineWinner(match)
    /\ loopExit' = "budget"
    /\ pc' = "done"
    /\ UNCHANGED <<match, firstTurn, turnResult, mementos, registry>>

NextDriver ==
    \/ \E recs \in RecordBatches(MaxLoaded) : Setup(recs)
    \/ \E correct \in BOOLEAN : TurnAnswer(correct)
    \/ TurnSkip
    \/ TurnNoQuestion
    \/ GameOver

SpecDriver == Init /\ [][NextDriver]_vars

\* The driver with players who keep answering or skipping: a step of run()
\* that can be taken is eventually taken.
SpecDriverFair == SpecDriver /\ WF_vars(NextDriver)

(***************************************************************************)
(* The Caretaker's undo.  Match.save hands the memento the Match object    *)
(* itself and the memento keeps that reference, so that what getState      *)
(* yields at the time of the undo is the match as it is then.              *)
(***************************************************************************)
\* A memento that yields the match as it was before it started.
getState_Stale(m) == [m EXCEPT !.status = "waiting"]

\* ConcreteMatchMemento.getState of a memento made by Match.save.
getState(m) == m

\* What a memento made by Match.save when the match was s yields once the
\* match has become live: the memento holds the Match object, not a copy.
memento(s, live) == getState(live)

\* A restore that makes the players anew without their points and skips.
restore_Defaults(m, state) ==
    [m EXCEPT !.players           = state.players,
              !.points            = [p \in PlayerIds |-> InitialPoints],
              !.skips             = [p \in PlayerIds |-> InitialSkips],
              !.questionPool      = state.questionPool,
              !.assigned          = state.assigned,
              !.status            = state.status,
              !.passedQuestion    = state.passedQuestion,
              !.questionsResolved = state.questionsResolved,
              !.numberOfRounds    = state.numberOfRounds,
              !.currentRound      = state.currentRound,
              !.currentPlayer     = state.currentPlayer]

\* Match.restore: every field is taken from the memento's state; the Player
\* objects are made anew with the id, points and skips found there.
restore(m, state) ==
    [m EXCEPT !.players           = state.players,
              !.points            = state.points,
              !.skips             = state.skips,
              !.questionPool      = state.questionPool,
              !.assigned          = state.assigned,
              !.status            = state.status,
              !.passedQuestion    = state.passedQuestion,
              !.questionsResolved = state.questionsResolved,
              !.numberOfRounds    = state.numberOfRounds,
              !.currentRound      = state.currentRound,
              !.currentPlayer     = state.currentPlayer]

\* Caretaker.undo on a stack of n mementos: nothing without a memento.
undo(m, n) == IF n = 0 THEN m ELSE restore(m, getState(m))

\* The driver never calls undo; a caller does before the setup or after the
\* game loop (inside the loop the restored current player would be a Player
\* object apart from the ones in players).
Undo ==
    /\ pc # "loop"
    /\ match' = undo(match, mementos)
    /\ mementos' = IF mementos = 0 THEN 0 ELSE mementos - 1
    /\ UNCHANGED <<pc, firstTurn, turnResult, loopExit, winner, registry>>

NextCaretaker ==
    \/ NextDriver
    \/ Undo

SpecCaretaker == Init /\ [][NextCaretaker]_vars

(***************************************************************************)
(* Properties                                                              *)
(***************************************************************************)
InPool(m, q) == q \in Range(m.questionPool)

\* The player p of the match holds question q.
Holds(m, p, q) == hasPlayer(m, p) /\ q # None /\ m.assigned[p] = q

\* C1: a correct answer to a question the player holds, which is not the
\* passed question, awards exactly its points to the player, clears the
\* player's assignment, removes the question from the pool, counts one
\* resolved question and reports pointsAwarded = q.points,
\* questionPassed = false, turnOver = true.
C1_CorrectFirstAttempt ==
    \A p \in PlayerIds, q \in Created :
        (Holds(match, p, q) /\ match.passedQuestion # q) =>
            LET r == handlePlayerAnswer(match, p, TRUE, q)
            IN  /\ r.threw = "none"
                /\ r.m.points[p] = match.points[p] + QuestionPoints(q)
                /\ r.m.assigned[p] = None
                /\ ~InPool(r.m, q)
                /\ r.m.questionsResolved = match.questionsResolved + 1
                /\ r.ret.pointsAwarded = QuestionPoints(q)
                /\ r.ret.questionPassed = FALSE
                /\ r.ret.turnOver = TRUE

\* A player holds a pooled question that is not the passed one, and the
\* correct answer to it ends the turn with its points.
C1_Witness ==
    \E p \in PlayerIds, q \in Created :
        /\ Holds(match, p, q) /\ match.passedQuestion # q /\ InPool(match, q)
        /\ handlePlayerAnswer(match, p, TRUE, q).ret.turnOver
        /\ handlePlayerAnswer(match, p, TRUE, q).m.points[p] = match.points[p] + 1

\* C2: an incorrect answer to a question the player holds, which is not
\* the passed question, moves the assignment to the other player of the
\* two-player match, marks the question passed, reports questionPassed =
\* true, nextPlayerId = other, turnOver = false, pointsAwarded = 0, and
\* leaves the pool, all points, all skips and questionsResolved unchanged.
C2_IncorrectFirstAttempt ==
    \A p \in PlayerIds, q \in Created :
        (Holds(match, p, q) /\ match.passedQuestion # q /\ Len(match.players) = 2) =>
            LET r == handlePlayerAnswer(match, p, FALSE, q)
                other == FindOther(match, p)
            IN  /\ r.threw = "none"
                /\ other # None /\ other # p
                /\ r.m.assigned[p] = None
                /\ r.m.assigned[other] = q
                /\ r.m.passedQuestion = q
                /\ r.ret.questionPassed = TRUE
                /\ r.ret.nextPlayerId = other
                /\ r.ret.turnOver = FALSE
                /\ r.ret.pointsAwarded = 0
                /\ r.m.questionPool = match.questionPool
                /\ r.m.points = match.points
                /\ r.m.skips = match.skips
                /\ r.m.questionsResolved = match.questionsResolved

\* A player of a two-player match holds a pooled question that is not the
\* passed one, and the incorrect answer to it passes it on.
C2_Witness ==
    \E p \in PlayerIds, q \in Created :
        /\ Holds(match, p, q) /\ match.passedQuestion # q /\ Len(match.players) = 2
        /\ InPool(match, q)
        /\ handlePlayerAnswer(match, p, FALSE, q).ret.questionPassed
        /\ handlePlayerAnswer(match, p, FALSE, q).m.passedQuestion = q

\* C3: a correct answer to the passed question (the second attempt) awards
\* its points to the answering player and to nobody else, clears the passed
\* marker, removes the question from the pool, counts one resolved question
\* and reports pointsAwarded = q.points with turnOver = false.
C3_CorrectSecondAttempt ==
    \A p \in PlayerIds, q \in Created :
        (hasPlayer(match, p) /\ match.passedQuestion = q) =>
            LET r == handlePlayerAnswer(match, p, TRUE, q)
            IN  /\ r.threw = "none"
                /\ r.m.points[p] = match.points[p] + QuestionPoints(q)
                /\ \A o \in PlayerIds \ {p} : r.m.points[o] = match.points[o]
                /\ r.m.passedQuestion = None
                /\ ~InPool(r.m, q)
                /\ r.m.questionsResolved = match.questionsResolved + 1
                /\ r.ret.pointsAwarded = QuestionPoints(q)
                /\ r.ret.turnOver = FALSE

\* The second player holds the passed question, still pooled, and the
\* correct answer to it scores without ending the turn.
C3_Witness ==
    \E p \in PlayerIds, q \in Created :
        /\ Holds(match, p, q) /\ match.passedQuestion = q /\ InPool(match, q)
        /\ Len(match.players) = 2
        /\ handlePlayerAnswer(match, p, TRUE, q).ret.pointsAwarded = 1
        /\ ~handlePlayerAnswer(match, p, TRUE, q).ret.turnOver

\* C4: an incorrect answer to the passed question changes nobody's points,
\* clears the passed marker, removes the question from the pool, clears the
\* player's assignment, counts one resolved question and reports
\* pointsAwarded = 0, questionPassed = false, turnOver = false.
C4_IncorrectSecondAttempt ==
    \A p \in PlayerIds, q \in Created :
        (hasPlayer(match, p) /\ match.passedQuestion = q) =>
            LET r == handlePlayerAnswer(match, p, FALSE, q)
            IN  /\ r.threw = "none"
                /\ r.m.points = match.points
                /\ r.m.passedQuestion = None
                /\ ~InPool(r.m, q)
                /\ r.m.assigned[p] = None
                /\ r.m.questionsResolved = match.questionsResolved + 1
                /\ r.ret.pointsAwarded = 0
                /\ r.ret.questionPassed = FALSE
                /\ r.ret.turnOver = FALSE

\* The second player holds the passed question, still pooled, and the
\* incorrect answer to it resolves it for no points.
C4_Witness ==
    \E p \in PlayerIds, q \in Created :
        /\ Holds(match, p, q) /\ match.passedQuestion = q /\ InPool(match, q)
        /\ Len(match.players) = 2
        /\ ~InPool(handlePlayerAnswer(match, p, FALSE, q).m, q)
        /\ handlePlayerAnswer(match, p, FALSE, q).m.passedQuestion = None

\* The two effects of a handlePlayerAnswer call that leads from m to r.m.
ResolvedOne(m, r) ==
    /\ Len(r.m.questionPool) = Len(m.questionPool) - 1
    /\ r.m.questionsResolved = m.questionsResolved + 1

PassedOn(m, r, p) ==
    /\ r.m.questionPool = m.questionPool
    /\ r.m.questionsResolved = m.questionsResolved
    /\ m.assigned[p] # None
    /\ FindOther(m, p) # None
    /\ r.m.assigned[p] = None
    /\ r.m.assigned[FindOther(m, p)] = m.assigned[p]

C6_SkipQuestionDiscards ==
    \A p \in PlayerIds :
        (hasPlayer(match, p) /\ match.assigned[p] # None) =>
            LET q == match.assigned[p]
                r == skipQuestion(match, p)
            IN  /\ r.threw = "none"
                /\ ~InPool(r.m, q)
                /\ r.m.points = match.points
                /\ r.m.questionsResolved = match.questionsResolved + 1
                /\ (r.m.questionPool # << >> =>
                        /\ r.ret # None /\ r.ret # q
                        /\ r.m.assigned[p] = r.ret)
                /\ r.m.currentPlayer = match.currentPlayer

\* A turn of the driver, from the state before it to the state after it.
SkipTurn == turnResult'.kind = "skip" /\ mementos' # mementos

\* C7: in the driver's skip flow a player with skips = k > 0 ends with
\* k - 1 skips, the skipped question leaves the pool and nobody scores, a
\* new question (if the pool has one) is assigned to the same player, and
\* that player is still the current player.
C7_DriverSkip ==
    [][SkipTurn =>
        LET p == turnResult'.player
            q == turnResult'.question
        IN  /\ match.currentPlayer = p
            /\ match.skips[p] > 0
            /\ match'.skips[p] = match.skips[p] - 1
            /\ InPool(match, q) /\ ~InPool(match', q)
            /\ match'.points = match.points
            /\ match'.questionsResolved = match.questionsResolved + 1
            /\ IF match'.questionPool # << >>
               THEN /\ match'.assigned[p] = Head(match'.questionPool)
                    /\ match'.assigned[p] # q
               ELSE match'.assigned[p] = None
            /\ match'.currentPlayer = p]_vars

\* A player has skipped once, holds a new question and is still to play.
C7_Witness ==
    /\ turnResult.kind = "skip"
    /\ pc = "loop"
    /\ match.skips[turnResult.player] = InitialSkips - 1
    /\ match.assigned[turnResult.player] \notin {None, turnResult.question}
    /\ match.currentPlayer = turnResult.player
    /\ loopCondition(match)

\* C8: every player's skips starts at 2, never increases and is never
\* negative; every skip costs one, so that a player skips at most twice.
C8_SkipsOnlyDecrease ==
    /\ \A p \in PlayerIds : match.skips[p] = 2
    /\ [][/\ \A p \in PlayerIds :
                /\ match'.skips[p] <= match.skips[p]
                /\ match'.skips[p] >= 0
          /\ SkipTurn =>
                match'.skips[turnResult'.player] = match.skips[turnResult'.player] - 1
         ]_vars

\* A player has just used the second skip.
C8_Witness ==
    /\ turnResult.kind = "skip"
    /\ match.skips[turnResult.player] = 0

\* C9: determineWinner returns a player only when that player has strictly
\* more points than every other player of the match (a shared top score is
\* a tie, not a player), and nothing only when the match has no players.
C9_StrictWinner ==
    LET w == determineWinner(match)
    IN  /\ w # None =>
            \A o \in Range(match.players) \ {w} : match.points[w] > match.points[o]
        /\ w = None => Len(match.players) = 0

\* C10: questionsResolved never decreases, and when the driver's loop ends
\* by its round budget questionsResolved does not exceed numberOfRounds.
C10_ResolvedWithinBudget ==
    [][/\ match'.questionsResolved >= match.questionsResolved
       /\ loopExit' = "budget" =>
             ~GreaterThan(match'.questionsResolved, match'.numberOfRounds)
      ]_vars

\* C11: drawQuestion removes the question it returns from the pool: a
\* successful draw returns the first question in insertion order, leaves a
\* pool one smaller that no longer holds it, and the next draw returns a
\* different question.
C11_DrawRemoves ==
    match.questionPool # << >> =>
        LET q     == drawQuestion(match)
            after == [match EXCEPT !.questionPool = poolAfterDraw(match)]
        IN  /\ q = Head(match.questionPool)
            /\ Len(after.questionPool) = Len(match.questionPool) - 1
            /\ ~InPool(after, q)
            /\ drawQuestion(after) # q

\* C12: assignQuestionToPlayer(p) for a player of the match returns the
\* empty signal without throwing and changes nothing when the pool is
\* empty, and otherwise records assigned[p] = the id of the question from
\* the pool that it returns.
C12_AssignOnEmptyPool ==
    \A p \in PlayerIds :
        hasPlayer(match, p) =>
            LET r == assignQuestionToPlayer(match, p)
            IN  /\ r.threw = "none"
                /\ IF match.questionPool = << >>
                   THEN /\ r.ret = None
                        /\ r.m = match
                   ELSE /\ r.ret # None
                        /\ InPool(match, r.ret)
                        /\ r.m.assigned[p] = r.ret

\* The pool is empty while a player of the match still holds a question id,
\* and the assignment returns the empty signal.
C12_Witness ==
    \E p \in PlayerIds :
        /\ hasPlayer(match, p)
        /\ match.questionPool = << >>
        /\ match.assigned[p] # None
        /\ assignQuestionToPlayer(match, p).ret = None
        /\ assignQuestionToPlayer(match, p).threw = "none"

\* C13: addPlayer fails with DuplicateError when the player is already in
\* the match and with InvalidOperationError whenever the status is not
\* 'waiting'; a failing call adds no player.
C13_AddPlayerGuards ==
    \A p \in PlayerIds :
        LET r == addPlayer(match, p)
        IN  /\ (hasPlayer(match, p) /\ match.status = "waiting") =>
                    r.threw = "DuplicateError"
            /\ (~hasPlayer(match, p) /\ match.status # "waiting") =>
                    r.threw = "InvalidOperationError"
            /\ (hasPlayer(match, p) /\ match.status # "waiting") =>
                    r.threw \in {"DuplicateError", "InvalidOperationError"}
            /\ r.threw # "none" => r.m.players = match.players

\* C14: start succeeds only in status 'waiting' with exactly two players,
\* and then only sets the status to 'in-progress'; in every other case it
\* fails with InvalidOperationError and changes nothing.
C14_StartGuards ==
    LET r == start(match)
    IN  IF match.status = "waiting" /\ Len(match.players) = 2
        THEN /\ r.threw = "none"
             /\ r.m = [match EXCEPT !.status = "in-progress"]
        ELSE /\ r.threw = "InvalidOperationError"
             /\ r.m = match

\* C15: the match status is a linear state machine: over every step
\* (start in the setup, a turn of the driver, the end of the game, the undo
\* of a snapshot) it only moves waiting -> in-progress -> finished, never
\* backward and never from waiting straight to finished.
C15_StatusLinear ==
    [][/\ match.status = "waiting" =>
              match'.status \in {"waiting", "in-progress"}
       /\ match.status = "in-progress" =>
              match'.status \in {"in-progress", "finished"}
       /\ match.status = "finished" =>
              match'.status = "finished"
      ]_vars

\* The match is finished and every snapshot taken on the way was undone.
C15_Witness ==
    /\ match.status = "finished"
    /\ pc = "done"
    /\ mementos = 0
    /\ match.questionsResolved > 0

\* C16: once the match is started it has exactly two players and the set
\* of players is fixed: no addPlayer and no removePlayer call succeeds
\* while the status is 'in-progress' or 'finished'.
C16_PlayersFixedAfterStart ==
    match.status \in {"in-progress", "finished"} =>
        /\ Len(match.players) = 2
        /\ \A p \in PlayerIds :
              /\ addPlayer(match, p).threw # "none"
              /\ removePlayer(match, p).threw # "none"

\* C17: handlePlayerAnswer(p, answer, q) for a player of the match who does
\* not hold q fails with InvalidOperationError, awards no points and
\* resolves nothing.
C17_OutOfTurnRejected ==
    \A p \in PlayerIds, correct \in BOOLEAN, q \in Created :
        (hasPlayer(match, p) /\ match.assigned[p] # q) =>
            LET r == handlePlayerAnswer(match, p, correct, q)
            IN  /\ r.threw = "InvalidOperationError"
                /\ r.m.points = match.points
                /\ r.m.questionPool = match.questionPool
                /\ r.m.questionsResolved = match.questionsResolved

\* C18: skipQuestion(p) for a player of the match with no skips left fails
\* with InvalidOperationError and leaves assigned, the pool,
\* questionsResolved and skips unchanged.
C18_SkipWithoutSkipsRejected ==
    \A p \in PlayerIds :
        (hasPlayer(match, p) /\ match.skips[p] = 0) =>
            LET r == skipQuestion(match, p)
            IN  /\ r.threw = "InvalidOperationError"
                /\ r.m.assigned = match.assigned
                /\ r.m.questionPool = match.questionPool
                /\ r.m.questionsResolved = match.questionsResolved
                /\ r.m.skips = match.skips

\* A call that either returns or leaves the match as it found it.
Atomic(r) == r.threw # "none" => r.m = match

\* C19: every Match Service operation that fails with an error leaves the
\* match exactly as it was before the call, in every status: addPlayer,
\* removePlayer, start, assignQuestionToPlayer, passQuestion, skipQuestion,
\* recordAnswer and handlePlayerAnswer.
C19_FailedCallsChangeNothing ==
    /\ Atomic(start(match))
    /\ \A p \in PlayerIds :
          /\ Atomic(addPlayer(match, p))
          /\ Atomic(removePlayer(match, p))
          /\ Atomic(assignQuestionToPlayer(match, p))
          /\ Atomic(skipQuestion(match, p))
          /\ \A to \in PlayerIds : Atomic(passQuestion(match, p, to))
          /\ \A correct \in BOOLEAN :
                /\ \A q \in Created \cup {None} :
                      Atomic(recordAnswer(match, p, correct, q))
                /\ \A q \in Created :
                      Atomic(handlePlayerAnswer(match, p, correct, q))

\* C20: passQuestion(from, to) fails with NotFoundError when either id is
\* not a player of the match and with InvalidOperationError when from holds
\* no question, leaving assigned and passedQuestion unchanged; otherwise it
\* moves the held question id from assigned[from] to assigned[to] and sets
\* passedQuestion to that id.
C20_PassQuestion ==
    \A from \in PlayerIds, to \in PlayerIds :
        LET r == passQuestion(match, from, to)
            unchanged == /\ r.m.assigned = match.assigned
                         /\ r.m.passedQuestion = match.passedQuestion
        IN  IF ~hasPlayer(match, from) \/ ~hasPlayer(match, to)
            THEN r.threw = "NotFoundError" /\ unchanged
            ELSE IF match.assigned[from] = None
            THEN r.threw = "InvalidOperationError" /\ unchanged
            ELSE /\ r.threw = "none"
                 /\ r.m.assigned[to] = match.assigned[from]
                 /\ from # to => r.m.assigned[from] = None
                 /\ \A o \in PlayerIds \ {from, to} :
                       r.m.assigned[o] = match.assigned[o]
                 /\ r.m.passedQuestion = match.assigned[from]

\* One state shows the three cases: a player holding a question that is not
\* the passed one can pass it to the other player, who holds nothing and so
\* cannot pass, and nobody can pass to someone who is not in the match.
C20_Witness ==
    \E from \in PlayerIds, to \in PlayerIds, x \in PlayerIds :
        /\ from # to /\ hasPlayer(match, from) /\ hasPlayer(match, to)
        /\ ~hasPlayer(match, x)
        /\ match.assigned[from] # None /\ match.assigned[to] = None
        /\ match.passedQuestion # match.assigned[from]
        /\ passQuestion(match, from, to).m.passedQuestion = match.assigned[from]
        /\ passQuestion(match, to, from).threw = "InvalidOperationError"
        /\ passQuestion(match, from, x).threw = "NotFoundError"

\* What a snapshot is to bring back.
SnapshotFields(m) ==
    [players |-> m.players, points |-> m.points, skips |-> m.skips,
     questionPool |-> m.questionPool, assigned |-> m.assigned,
     passedQuestion |-> m.passedQuestion,
     questionsResolved |-> m.questionsResolved, status |-> m.status,
     currentRound |-> m.currentRound]

\* C21: a snapshot is point-in-time: saved in a state, it restores the
\* points, skips, pool, assigned, passedQuestion, questionsResolved, status
\* and currentRound of that state whatever the match did in between (here:
\* one answer of any player to any question).
C21_SnapshotPointInTime ==
    \A p \in PlayerIds, correct \in BOOLEAN, q \in Created :
        LET after    == handlePlayerAnswer(match, p, correct, q).m
            restored == restore(after, memento(match, after))
        IN  SnapshotFields(restored) = SnapshotFields(match)

\* C22: a snapshot saved and restored at once reproduces the players'
\* scores and skips, the pool and currentRound.
C22_SaveRestoreRoundTrip ==
    LET restored == restore(match, memento(match, match))
    IN  /\ restored.players = match.players
        /\ restored.points = match.points
        /\ restored.skips = match.skips
        /\ restored.questionPool = match.questionPool
        /\ restored.currentRound = match.currentRound

\* A game in which a player scored, a player skipped, questions are left
\* and rounds have passed, restored from a snapshot taken at once.
C22_Witness ==
    /\ \E p \in PlayerIds : hasPlayer(match, p) /\ match.points[p] > 0
    /\ \E p \in PlayerIds : hasPlayer(match, p) /\ match.skips[p] < InitialSkips
    /\ match.questionPool # << >>
    /\ match.currentRound > 1
    /\ mementos > 0
    /\ restore(match, memento(match, match)).points = match.points

\* The state of the Question object q.
QuestionState(m, q) == <<m.qAssignedTo[q], m.qAnsweredBy[q]>>

\* C23: markAnswered on a question that was already marked answered fails
\* with InvalidOperationError and leaves the question's assignedTo and
\* answeredBy as the first call left them.
C23_MarkAnsweredTwice ==
    \A q \in Created, p \in PlayerIds, p2 \in PlayerIds :
        LET first == markAnswered(match, q, p)
        IN  first.threw = "none" =>
                LET second == markAnswered(first.m, q, p2)
                IN  /\ second.threw = "InvalidOperationError"
                    /\ QuestionState(second.m, q) = QuestionState(first.m, q)

\* A question is assigned and not yet answered: its assignee marks it
\* answered, and doing so again fails.
C23_Witness ==
    \E q \in Created, p \in PlayerIds :
        /\ match.qAssignedTo[q] = p /\ match.qAnsweredBy[q] = None
        /\ markAnswered(match, q, p).threw = "none"
        /\ markAnswered(markAnswered(match, q, p).m, q, p).threw
               = "InvalidOperationError"

\* C24: for every question, assignTo succeeds only while the question is
\* unassigned (a second assignTo fails with InvalidOperationError and keeps
\* the first assignee), markAnswered succeeds only for the assignee of an
\* assigned, unanswered question, every failing call leaves the question as
\* it was, and answeredBy, once set, equals assignedTo and never changes.
C24_AssignOnceAnswerOnce ==
    /\ [](\A q \in Created, p \in PlayerIds :
            LET a == assignTo(match, q, p)
                k == markAnswered(match, q, p)
            IN  /\ a.threw = "none" <=> match.qAssignedTo[q] = None
                /\ a.threw = "none" =>
                      /\ a.m.qAssignedTo[q] = p
                      /\ \A p2 \in PlayerIds :
                            /\ assignTo(a.m, q, p2).threw = "InvalidOperationError"
                            /\ assignTo(a.m, q, p2).m.qAssignedTo[q] = p
                /\ a.threw # "none" =>
                      a.threw = "InvalidOperationError" /\ a.m = match
                /\ k.threw = "none" <=>
                      /\ match.qAssignedTo[q] = p
                      /\ match.qAnsweredBy[q] = None
                /\ k.threw = "none" => k.m.qAnsweredBy[q] = p
                /\ k.threw # "none" =>
                      k.threw = "InvalidOperationError" /\ k.m = match
                /\ match.qAnsweredBy[q] # None =>
                      match.qAnsweredBy[q] = match.qAssignedTo[q])
    /\ [][\A q \in QuestionIds :
            /\ match.qAnsweredBy[q] # None =>
                  match'.qAnsweredBy[q] = match.qAnsweredBy[q]
            /\ match.qAssignedTo[q] # None =>
                  match'.qAssignedTo[q] = match.qAssignedTo[q]]_vars

\* One question was assigned and answered by its assignee while another is
\* assigned to a player and still open.
C24_Witness ==
    \E q \in Created, q2 \in Created, p \in PlayerIds :
        /\ match.qAnsweredBy[q] = p /\ match.qAssignedTo[q] = p
        /\ match.qAssignedTo[q2] # None /\ match.qAnsweredBy[q2] = None
        /\ assignTo(match, q2, p).threw = "InvalidOperationError"
        /\ markAnswered(match, q, p).threw = "InvalidOperationError"

\* C26: after createQuestionPool(questions) the round budget equals the
\* number of questions supplied minus the 4 skip-buffer questions.
C26_RoundBudget ==
    \A recs \in RecordBatches(MaxLoaded) :
        Len(recs) >= 4 =>
            createQuestionPool(match, recs).m.numberOfRounds
                = Fraction(Len(recs) - 4, 1)

\* The bijections of 1..n.
Bijections(n) == {f \in [1..n -> 1..n] : \A i, j \in 1..n : f[i] = f[j] => i = j}

\* s is a rearrangement of t.
IsPermutationOf(s, t) ==
    /\ Len(s) = Len(t)
    /\ \E f \in Bijections(Len(s)) : \A i \in 1..Len(s) : s[i] = t[f[i]]

IsWellFormed(rec) ==
    /\ rec.type \in {"multiple", "boolean"}
    /\ rec.question # ""
    /\ rec.correct_answer # ""
    /\ rec.has_incorrect_answers

\* C28: createQuestionPool does not fail on a batch with malformed records;
\* afterwards the pool of a fresh match holds exactly one question per
\* well-formed record, in the order of the records, and none for the others.
C28_MalformedSkipped ==
    \A recs \in ApiBatches(MaxQuestions) :
        match.created = 0 =>
            LET r  == createQuestionPool(match, recs)
                wf == SelectSeq(recs, IsWellFormed)
            IN  /\ r.threw = "none"
                /\ Len(r.m.questionPool) = Len(wf)
                /\ Cardinality(Range(r.m.questionPool)) = Len(wf)
                /\ \A i \in 1..Len(wf) :
                       LET q == r.m.qData[r.m.questionPool[i]]
                       IN  /\ q.type = wf[i].type
                           /\ q.text = decodeHTML(wf[i].question)
                           /\ q.difficulty = wf[i].difficulty

\* Two records were supplied and the pool holds the one question of the
\* well-formed record.
C28_Witness ==
    /\ match.numberOfRounds = Fraction(2, 2)
    /\ Len(match.questionPool) = 1
    /\ match.qData[match.questionPool[1]] # NoQuestion

\* The point value the rules of the game give a difficulty.
DifficultyPoints(d) ==
    CASE d = "easy"   -> 1
      [] d = "medium" -> 2
      [] d = "hard"   -> 3
      [] OTHER        -> 0

\* C30: a question is worth 1, 2 or 3 points according to its difficulty
\* (easy, medium, hard), and a correct answer awards that many points.
C30_PointsFollowDifficulty ==
    \A q \in Range(match.questionPool) :
        /\ match.qData[q].points = DifficultyPoints(match.qData[q].difficulty)
        /\ \A p \in CreatedPlayers :
               hasPlayer(match, p) =>
                   handlePlayerAnswer(match, p, TRUE, q).ret.pointsAwarded
                       = DifficultyPoints(match.qData[q].difficulty)

\* C29: no question repeats within a session: a call never adds to the
\* loaded pool, a question resolved by an answer is not drawn again, and a
\* question answered correctly is not assigned again.
C29_NoRepeat ==
    /\ \A p \in CreatedPlayers, q \in Created, correct \in BOOLEAN :
           LET r == handlePlayerAnswer(match, p, correct, q)
           IN  r.threw = "none" =>
                   /\ Range(r.m.questionPool) \subseteq Range(match.questionPool)
                   /\ ~InPool(r.m, q) =>
                          \A x \in CreatedPlayers :
                              assignQuestionToPlayer(r.m, x).ret # q
    /\ \A p \in CreatedPlayers :
           LET q == match.assigned[p]
               r == answerQuestion(match, p, TRUE)
           IN  (q # None /\ r.threw = "none") =>
                   /\ Range(r.m.questionPool) \subseteq Range(match.questionPool)
                   /\ r.m.assigned[p] # q

\* C25: the Category registry is idempotent and keeps names unique:
\* getOrCreate for a registered name returns the existing category and
\* leaves the registry as it is, so a second getOrCreate(id, name) returns
\* what the first returned; an id registered under another name is a
\* DuplicateError; no two registered categories share a name.
C25_RegistryIdempotent ==
    /\ \A id \in CallerIds, name \in CategoryNames :
           LET byId  == getById(registry, id)
               clash == byId # None /\ registry.byId[byId] # name
               r1    == getOrCreate(registry, id, name)
               r2    == getOrCreate(r1.reg, id, name)
           IN  /\ clash => (r1.threw = "DuplicateError" /\ r1.reg = registry)
               /\ (~clash /\ getByName(registry, name) # None) =>
                      /\ r1.threw = "none"
                      /\ r1.ret = getByName(registry, name)
                      /\ r1.reg = registry
               /\ r1.threw = "none" =>
                      /\ r2.threw = "none"
                      /\ r2.ret = r1.ret
                      /\ r2.reg = r1.reg
    /\ \A i, j \in DOMAIN registry.byId :
           registry.byId[i] = registry.byId[j] => i = j

\* C31: when the game ends with both players on equal points no player is
\* announced as the winner directly (a decisive extra question is played
\* first).
C31_TieNotAnnounced ==
    (/\ pc = "done"
     /\ Len(match.players) = NumPlayers
     /\ match.points[match.players[1]] = match.points[match.players[2]])
        => winner = None

\* C32: turn order in the driver loop.  After the current player answers
\* their own (not passed) question correctly the other player is the current
\* one.  After an incorrect first answer the other player is the current one
\* and holds that question; the next iteration presents that same question
\* to the other player and leaves currentRound as it is.
C32_TurnOrder ==
    [][(pc = "loop" /\ mementos' # mementos) =>
          /\ (/\ turnResult'.kind = "answer"
              /\ turnResult'.out.pointsAwarded > 0
              /\ match.passedQuestion # turnResult'.question)
                 => /\ match'.currentPlayer # turnResult'.player
                    /\ match'.currentPlayer = FindOther(match, turnResult'.player)
          /\ (turnResult'.kind = "answer" /\ turnResult'.out.questionPassed)
                 => /\ match'.currentPlayer # turnResult'.player
                    /\ match'.currentPlayer = FindOther(match, turnResult'.player)
                    /\ match'.assigned[match'.currentPlayer] = turnResult'.question
                    /\ loopCondition(match')
          /\ (turnResult.kind = "answer" /\ turnResult.out.questionPassed)
                 => /\ turnResult'.question = turnResult.question
                    /\ turnResult'.player # turnResult.player
                    /\ match'.currentRound = match.currentRound
      ]_vars

\* The passed question has just been presented to the other player, in the
\* round in which it was first presented.
C32_Witness ==
    /\ pc = "loop"
    /\ turnResult.kind = "answer"
    /\ turnResult.question # None
    /\ ~InPool(match, turnResult.question)
    /\ match.qAssignedTo[turnResult.question] # turnResult.player
    /\ match.currentRound = 2

C34_PassedQuestionHeld ==
    match.passedQuestion # None =>
        /\ InPool(match, match.passedQuestion)
        /\ Cardinality({p \in PlayerIds :
                            match.assigned[p] = match.passedQuestion}) = 1

\* C35: no question is held in assigned by two different players at the
\* same time.
C35_NoSharedQuestion ==
    \A p1, p2 \in PlayerIds :
        (p1 # p2 /\ match.assigned[p1] # None) =>
            match.assigned[p1] # match.assigned[p2]

\* C36: the assignment map and the question's own field agree: whenever
\* assigned[p] is question q, q.assignedTo is p, also after a pass; and a
\* question that has left the pool through an answer of its holder carries
\* that player as answeredBy.
C36_AssignedAgrees ==
    /\ \A p \in PlayerIds :
           match.assigned[p] # None =>
               match.qAssignedTo[match.assigned[p]] = p
    /\ (turnResult.kind = "answer" /\ ~InPool(match, turnResult.question)) =>
           match.qAnsweredBy[turnResult.question] = turnResult.player

\* The sum of f over the set S.
RECURSIVE SumOver(_, _)
SumOver(f, S) ==
    IF S = {} THEN 0
    ELSE LET x == CHOOSE y \in S : TRUE
         IN  f[x] + SumOver(f, S \ {x})

\* The point value of the questions that have been removed from the pool.
RemovedValue(m) ==
    SumOver([q \in QuestionIds |-> m.qData[q].points],
            (1..m.created) \ Range(m.questionPool))

\* C37: each question awards points at most once: no player's points ever
\* decrease, and the players' points together never exceed the point value
\* of the questions that have been removed from the pool.
C37_PointsAtMostOnce ==
    /\ [](SumOver(match.points, PlayerIds) <= RemovedValue(match))
    /\ [][\A p \in PlayerIds : match'.points[p] >= match.points[p]]_vars

\* The iterations of the game loop completed so far: the caretaker gets one
\* snapshot in the setup and one at the end of each completed iteration.
Iterations == IF mementos = 0 THEN 0 ELSE mementos - 1

\* C38: the driver loop terminates: every iteration resolves a question or
\* passes it, a pass is followed in the next iteration by the resolution of
\* that question by the other player, the loop ends after at most
\* 2 x numberOfRounds iterations, and the winner is then determined.
C38_LoopTerminates ==
    /\ [](~GreaterThan(Iterations, Fraction(2 * match.numberOfRounds[1],
                                             match.numberOfRounds[2])))
    /\ [][(pc = "loop" /\ mementos' # mementos) =>
             /\ \/ match'.questionsResolved = match.questionsResolved + 1
                \/ /\ turnResult'.out.questionPassed
                   /\ match'.questionsResolved = match.questionsResolved
             /\ (turnResult.kind = "answer" /\ turnResult.out.questionPassed) =>
                   /\ turnResult'.question = turnResult.question
                   /\ turnResult'.player # turnResult.player
                   /\ ~InPool(match', turnResult.question)
                   /\ match'.questionsResolved = match.questionsResolved + 1
         ]_vars
    /\ [](pc = "done" => winner = determineWinner(match))
    /\ <>(pc = "done")

\* C39: whenever the driver's game loop has ended, match.status is
\* 'finished' when the winner is determined.
C39_FinishedAtGameOver ==
    pc = "done" => match.status = "finished"

\* Every record handed to createQuestionPool was well-formed: the questions
\* created are as many as the records counted in numberOfRounds.
AllWellFormed(m) == m.created = m.numberOfRounds[1]

\* C40: when every loaded record is well-formed the driver loop never ends
\* by finding the pool empty: it ends by reaching the round budget.
C40_SkipBufferSuffices ==
    /\ (loopExit = "empty") => ~AllWellFormed(match)
    /\ (pc = "done" /\ AllWellFormed(match)) => loopExit = "budget"

\* A game over all-well-formed records in which both players used both of
\* their skips has ended by its round budget.
C40_Witness ==
    /\ pc = "done"
    /\ loopExit = "budget"
    /\ match.created = MaxLoaded
    /\ AllWellFormed(match)
    /\ \A p \in CreatedPlayers : match.skips[p] = 0

====
